---- MODULE Spec2Model ----
(***************************************************************************)
(* Model of the analyzer package of sdileep/http-log-parser:                *)
(* NewLogAnalyzer, logAnalyzer.Analyze, readLogLines and topMost            *)
(* (src/analyzer/analyzer.go), with the producer goroutine of readLogLines, *)
(* the consumer loop of Analyze and the goroutine that drains errCh as      *)
(* three interleaved processes over two unbuffered channels.                *)
(***************************************************************************)
EXTENDS Integers, Sequences, FiniteSets, TLC

\* Longest input file, in lines.
MaxLines == 3
\* Largest ranking count a configuration asks for.
MaxTop == 2
\* Number of Analyze calls made on the analyzer.
MaxRuns == 2

VARIABLES
    config,      \* the *LogAnalyzerConfig given to NewLogAnalyzer
    analyzer,    \* what NewLogAnalyzer returned: the *logAnalyzer, or nil
    newErr,      \* the error NewLogAnalyzer returned ("" is nil)
    content,     \* the lines of the file at GoodPath, in order
    apc,         \* position of the caller in NewLogAnalyzer / Analyze
    fileOpen,    \* the *os.File of Analyze is open
    ppc,         \* position of the goroutine of readLogLines
    pos,         \* complete lines of the file the scanner has handed out
    scanErr,     \* scanner.Err() is non-nil (a read failed with a non-EOF error)
    scanned,     \* the values of scanner.Text() of this run, in order
    lineItem,    \* the *Line the producer is sending on outCh
    outClosed,   \* outCh is closed
    errClosed,   \* errCh is closed
    dpc,         \* position of the goroutine that receives from errCh
    printed,     \* that goroutine received a non-nil error and printed it
    uniqueIps,   \* map[string]int of Analyze
    urlHits,     \* map[string]int of Analyze
    result,      \* the *LogAnalytics Analyze returned, or nil
    retErr,      \* the error Analyze returned ("" is nil)
    runs,        \* Analyze calls started so far
    prev         \* the call of Analyze before: its result and the lines it read

vars == <<config, analyzer, newErr, content, apc, fileOpen, ppc, pos, scanErr, scanned,
          lineItem, outClosed, errClosed, dpc, printed, uniqueIps, urlHits,
          result, retErr, runs, prev>>

-----------------------------------------------------------------------------
(* Error strings.                                                           *)

ErrConfigIsRequired == "config is required"
ErrLineRegexIsRequired == "line regex is required"
ErrOpeningFile == "error opening file"

-----------------------------------------------------------------------------
(* Values.                                                                  *)

Nil == [nil |-> TRUE]

\* The zero time.Time: January 1, year 1, 00:00:00 UTC.
ZeroTime == [year |-> 1, month |-> 1, day |-> 1, hour |-> 0, min |-> 0,
             sec |-> 0, offset |-> 0]

Digits == {"0", "1", "2", "3", "4", "5", "6", "7", "8", "9"}

DigitVal(c) ==
    CASE c = "0" -> 0 [] c = "1" -> 1 [] c = "2" -> 2 [] c = "3" -> 3
      [] c = "4" -> 4 [] c = "5" -> 5 [] c = "6" -> 6 [] c = "7" -> 7
      [] c = "8" -> 8 [] c = "9" -> 9

RECURSIVE DecimalValue(_)
DecimalValue(s) ==
    IF Len(s) = 0 THEN 0
    ELSE 10 * DecimalValue(SubSeq(s, 1, Len(s) - 1)) + DigitVal(s[Len(s)])

\* strconv.Atoi on a text given as its characters: an optional sign, then one
\* or more decimal digits; anything else is a syntax error with value 0.
Atoi(s) ==
    LET signed == Len(s) > 0 /\ s[1] \in {"+", "-"}
        body   == IF signed THEN SubSeq(s, 2, Len(s)) ELSE s
    IN  IF Len(body) = 0 \/ \E i \in 1..Len(body) : body[i] \notin Digits
        THEN [val |-> 0, err |-> TRUE]
        ELSE [val |-> IF signed /\ s[1] = "-" THEN 0 - DecimalValue(body)
                      ELSE DecimalValue(body),
              err |-> FALSE]

IsLeap(y) == (y % 4 = 0) /\ ((y % 100 # 0) \/ (y % 400 = 0))

DaysIn(m, y) ==
    IF m = 2 THEN (IF IsLeap(y) THEN 29 ELSE 28)
    ELSE IF m \in {4, 6, 9, 11} THEN 30 ELSE 31

\* time.Parse with the layout "02/Jan/2006:15:04:05 -0700". The text is given
\* as the fields the layout splits it into, <<day, month, year, hour, minute,
\* second, zone>>, the month name as its number (0 when it is no month name);
\* a text that does not have the layout's shape has another number of fields.
\* On any error time.Parse returns the zero Time.
TimeParse(value) ==
    IF /\ Len(value) = 7
       /\ value[2] \in 1..12
       /\ value[1] \in 1..DaysIn(value[2], value[3])
       /\ value[4] \in 0..23
       /\ value[5] \in 0..59
       /\ value[6] \in 0..59
    THEN [t |-> [year |-> value[3], month |-> value[2], day |-> value[1],
                 hour |-> value[4], min |-> value[5], sec |-> value[6],
                 offset |-> value[7]],
          err |-> FALSE]
    ELSE [t |-> ZeroTime, err |-> TRUE]

-----------------------------------------------------------------------------
(* Input lines and the pattern.                                             *)

\* The pattern a configuration carries (main builds one; the analyzer only
\* ever applies it).
DefaultLineRegex == [pattern |-> "combined"]

GoodTime == <<10, 7, 2018, 22, 21, 28, 200>>
BadTime  == <<31, 2, 2018, 25, 61, 0, 0>>

\* A line of the file: its text and, when the pattern matches it, the ten
\* capture groups of the match (1 address, 2 date, 3 method, 4 URL,
\* 5 protocol, 6 URL without protocol, 7 status, 8 bytes, 9 referrer,
\* 10 user agent); groups is empty when the pattern does not match.
WellFormed1 ==
    [text |-> "10.0.0.1 /a 200",
     groups |-> <<"10.0.0.1", GoodTime, "GET", "/a", "HTTP/1.1", "",
                  <<"2", "0", "0">>, <<"3", "5", "7">>, "-", "curl">>]
Malformed1 ==
    [text |-> "10.0.0.1 /a xx",
     groups |-> <<"10.0.0.1", BadTime, "GET", "/a", "HTTP/1.1", "",
                  <<"2", "x">>, <<"-">>, "-", "curl">>]
NoProtocol2 ==
    [text |-> "10.0.0.2 /b 404",
     groups |-> <<"10.0.0.2", GoodTime, "GET", "", "", "/b",
                  <<"4", "0", "4">>, <<"0">>, "-", "curl">>]
NoURL3 ==
    [text |-> "10.0.0.3 - 500",
     groups |-> <<"10.0.0.3", <<>>, "", "", "", "",
                  <<"5", "0", "0">>, <<>>, "-", "">>]
EmptyLine == [text |-> "", groups |-> <<>>]
CutLine   == [text |-> "10.0.0.2 - - [10/Jul", groups |-> <<>>]
CutMatch  ==
    [text |-> "10.0.0.2 /b 404 cut",
     groups |-> <<"10.0.0.2", GoodTime, "GET", "/b", "HTTP/1.1", "",
                  <<"4", "0", "4">>, <<"0">>, "-", "">>]

Lines == {WellFormed1, Malformed1, NoProtocol2, NoURL3, EmptyLine}

\* What is left in the scanner's buffer when a read fails inside a line: the
\* line cut short, which the pattern may or may not match.
Truncations == {CutLine, CutMatch}

FilesOf(lines) == UNION {[1..n -> lines] : n \in 0..MaxLines}

Files == FilesOf(Lines)

GoodPath == "./test-data/programming-task.log"
MissingPath == "./test-data.log"
Paths == {GoodPath, MissingPath}

\* os.Open succeeds on the path that names the file.
Openable(filePath) == filePath = GoodPath

\* lineRegex.FindStringSubmatch(line): nil when there is no match, else the
\* whole match followed by the capture groups (result[i] is group i).
FindStringSubmatch(lineRegex, line) ==
    IF Len(line.groups) = 0 THEN <<>> ELSE <<line.text>> \o line.groups

\* result[i] of the Go slice, indexed from 0.
At(resultSlice, i) == resultSlice[i + 1]

-----------------------------------------------------------------------------
(* Decoding a matched line.                                                 *)

IntOrZeroNegative(text) == IF Atoi(text).err THEN 0 - 1 ELSE Atoi(text).val

\* status, err := strconv.Atoi(..); if err != nil { status = 0 }
IntOrZero(text) == IF Atoi(text).err THEN 0 ELSE Atoi(text).val

\* url := result[4]; if url == "" && altURL != "" { url = altURL }
ResolveURL(url, altURL) == IF url = "" /\ altURL # "" THEN altURL ELSE url

\* The *Line built from a match.
NewLine(res) ==
    [RemoteHost |-> At(res, 1),
     Request    |-> <<At(res, 3), " ", At(res, 4), " ", At(res, 5)>>,
     Referer    |-> At(res, 9),
     UserAgent  |-> At(res, 10),
     Time       |-> TimeParse(At(res, 2)).t,
     Status     |-> IntOrZero(At(res, 7)),
     Bytes      |-> IntOrZero(At(res, 8)),
     URL        |-> ResolveURL(At(res, 4), At(res, 6))]

-----------------------------------------------------------------------------
(* Frequency tables and ranking.                                            *)

EmptyMap == <<>>

\* count, exists := m[k]; if !exists { m[k] = 0 }; m[k] = count + 1
Incr(m, k) ==
    IF k \in DOMAIN m THEN [m EXCEPT ![k] = @ + 1] ELSE m @@ (k :> 1)

lessAscending(metrics, a, b) == metrics[a] < metrics[b]

\* The less function given to sort.Slice.
less(metrics, a, b) == metrics[a] > metrics[b]

\* The orders the stats slice can have after sort.Slice: the keys of the map
\* once each (the range over a map visits them in an order that is not
\* specified and differs from run to run), with no element less than one
\* before it. sort.Slice is not stable, so equal counts end in any order.
SortedStats(metrics) ==
    LET keys == DOMAIN metrics
        n    == Cardinality(keys)
    IN  {s \in [1..n -> keys] :
            /\ \A i, j \in 1..n : i # j => s[i] # s[j]
            /\ \A i, j \in 1..n : i < j => ~less(metrics, s[j], s[i])}

TakeClamped(stats, top) ==
    [panic |-> FALSE,
     list  |-> SubSeq(stats, 1, IF top > Len(stats) THEN Len(stats) ELSE top)]

\* for i := 0; i < top; i++ { topMost = append(topMost, stats[i].address) }
\* stats[i] with i = len(stats) is an index out of range: a run-time panic.
Take(stats, top) ==
    IF top > Len(stats) THEN [panic |-> TRUE, list |-> <<>>]
    ELSE [panic |-> FALSE, list |-> SubSeq(stats, 1, top)]

\* The outcomes of topMost(metrics, top).
topMost(metrics, top) == {Take(s, top) : s \in SortedStats(metrics)}

RECURSIVE SumCounts(_, _)
SumCounts(m, keys) ==
    IF keys = {} THEN 0
    ELSE LET k == CHOOSE x \in keys : TRUE
         IN  m[k] + SumCounts(m, keys \ {k})

LogAnalyticsCountingHits(ips, mostActiveIPs, mostVisitedURLs) ==
    [UniqueIPCount   |-> SumCounts(ips, DOMAIN ips),
     MostActiveIPs   |-> mostActiveIPs,
     MostVisitedURLs |-> mostVisitedURLs]

\* &LogAnalytics{UniqueIPCount: len(uniqueIps), ...}
LogAnalytics(ips, mostActiveIPs, mostVisitedURLs) ==
    [UniqueIPCount   |-> Cardinality(DOMAIN ips),
     MostActiveIPs   |-> mostActiveIPs,
     MostVisitedURLs |-> mostVisitedURLs]

-----------------------------------------------------------------------------
(* Construction.                                                            *)

Configs ==
    {Nil} \cup [LineRegex            : {Nil, DefaultLineRegex},
                MostActiveIPsCount   : 0..MaxTop,
                MostVisitedURLsCount : 0..MaxTop]

NewLogAnalyzerOneError(cfg) ==
    IF cfg = Nil \/ cfg.LineRegex = Nil
    THEN [analyzer |-> Nil, err |-> ErrConfigIsRequired]
    ELSE [analyzer |-> [lineRegex            |-> cfg.LineRegex,
                        mostActiveIPsCount   |-> cfg.MostActiveIPsCount,
                        mostVisitedURLsCount |-> cfg.MostVisitedURLsCount],
          err |-> ""]

NewLogAnalyzer(cfg) ==
    IF cfg = Nil THEN [analyzer |-> Nil, err |-> ErrConfigIsRequired]
    ELSE IF cfg.LineRegex = Nil
    THEN [analyzer |-> Nil, err |-> ErrLineRegexIsRequired]
    ELSE [analyzer |-> [lineRegex            |-> cfg.LineRegex,
                        mostActiveIPsCount   |-> cfg.MostActiveIPsCount,
                        mostVisitedURLsCount |-> cfg.MostVisitedURLsCount],
          err |-> ""]

-----------------------------------------------------------------------------
(* Initial state: nothing constructed; the file exists with some content.   *)

InitWith(files) ==
    /\ content \in files
    /\ config = Nil
    /\ analyzer = Nil
    /\ newErr = ""
    /\ apc = "new"
    /\ fileOpen = FALSE
    /\ ppc = "none"
    /\ pos = 0
    /\ scanErr = FALSE
    /\ scanned = <<>>
    /\ lineItem = Nil
    /\ outClosed = FALSE
    /\ errClosed = FALSE
    /\ dpc = "none"
    /\ printed = FALSE
    /\ uniqueIps = EmptyMap
    /\ urlHits = EmptyMap
    /\ result = Nil
    /\ retErr = ""
    /\ runs = 0
    /\ prev = Nil

Init == InitWith(Files)

runVars == <<fileOpen, ppc, pos, scanErr, scanned, lineItem, outClosed,
             errClosed, dpc, printed, uniqueIps, urlHits>>

\* The caller builds the analyzer from some configuration.
Construct ==
    /\ apc = "new"
    /\ \E c \in Configs :
          /\ config' = c
          /\ analyzer' = NewLogAnalyzer(c).analyzer
          /\ newErr' = NewLogAnalyzer(c).err
          /\ apc' = IF NewLogAnalyzer(c).err = "" THEN "ready" ELSE "failed"
    /\ UNCHANGED <<content, result, retErr, runs, prev>>
    /\ UNCHANGED runVars

\* The first call of Analyze on the analyzer.
FirstCall == apc = "ready"

\* A further call of Analyze on the same analyzer, after a call came back.
\* The goroutine draining errCh of the call before has ended by then (it
\* shares no state with the next call).
AgainCall ==
    /\ apc \in {"returned", "openfail"}
    /\ dpc \in {"none", "done"}
    /\ runs < MaxRuns

\* The locals of a call as it starts.
FreshRun ==
    /\ pos' = 0
    /\ scanErr' = FALSE
    /\ scanned' = <<>>
    /\ lineItem' = Nil
    /\ outClosed' = FALSE
    /\ errClosed' = FALSE
    /\ printed' = FALSE
    /\ uniqueIps' = EmptyMap
    /\ urlHits' = EmptyMap
    /\ prev' = (IF apc = "returned"
                THEN [result |-> result, lines |-> scanned] ELSE Nil)
    /\ runs' = runs + 1

OpenFailWithEmptyResult(callable) ==
    /\ callable
    /\ \E filePath \in Paths : ~Openable(filePath)
    /\ FreshRun
    /\ result' = LogAnalytics(EmptyMap, <<>>, <<>>)
    /\ retErr' = ErrOpeningFile
    /\ apc' = "openfail"
    /\ UNCHANGED <<fileOpen, ppc, dpc>>
    /\ UNCHANGED <<config, analyzer, newErr, content>>

\* file, err := os.Open(filePath); if err != nil { return nil, ... }
OpenFail(callable) ==
    /\ callable
    /\ \E filePath \in Paths : ~Openable(filePath)
    /\ FreshRun
    /\ result' = Nil
    /\ retErr' = ErrOpeningFile
    /\ apc' = "openfail"
    /\ UNCHANGED <<fileOpen, ppc, dpc>>
    /\ UNCHANGED <<config, analyzer, newErr, content>>

\* os.Open succeeds; readLogLines starts the producer, Analyze starts the
\* goroutine that receives from errCh, and enters its loop over lineCh.
Open(callable) ==
    /\ callable
    /\ \E filePath \in Paths : Openable(filePath)
    /\ FreshRun
    /\ result' = Nil
    /\ retErr' = ""
    /\ fileOpen' = TRUE
    /\ ppc' = "scan"
    /\ dpc' = "recv"
    /\ apc' = "loop"
    /\ UNCHANGED <<config, analyzer, newErr, content>>

AnalyzeOpenFail == OpenFail(FirstCall)
AnalyzeOpen == Open(FirstCall)
AnalyzeAgainOpenFail == OpenFail(AgainCall)
AnalyzeAgainOpen == Open(AgainCall)

-----------------------------------------------------------------------------
(* The goroutine of readLogLines.                                           *)

SkipEndsLoop ==
    /\ ppc' = "closing"
    /\ UNCHANGED lineItem

\* if len(result) <= 0 { continue }
Skip ==
    /\ ppc' = "scan"
    /\ UNCHANGED lineItem

\* The body of the loop for one value of scanner.Text(), up to the send on
\* outCh.
Body(line) ==
    LET res == FindStringSubmatch(analyzer.lineRegex, line)
    IN  IF Len(res) <= 0 THEN Skip
        ELSE /\ lineItem' = NewLine(res)
             /\ ppc' = "send"

\* scanner.Scan() returns true with the next complete line of the file, read
\* without error.
ScanLine ==
    /\ ppc = "scan"
    /\ ~scanErr
    /\ pos < Len(content)
    /\ pos' = pos + 1
    /\ scanned' = Append(scanned, content[pos + 1])
    /\ Body(content[pos + 1])
    /\ UNCHANGED <<config, analyzer, newErr, content, apc, fileOpen, scanErr, outClosed,
                   errClosed, dpc, printed, uniqueIps, urlHits, result, retErr,
                   runs, prev>>

\* A read fails inside a line (an *os.File returns no data together with an
\* error, so the buffer holds no complete line then): Scan returns true once
\* more, with what was read of that line, and scanner.Err() is now non-nil.
ScanCutLine ==
    /\ ppc = "scan"
    /\ ~scanErr
    /\ pos < Len(content)
    /\ \E cut \in Truncations :
          /\ scanned' = Append(scanned, cut)
          /\ Body(cut)
    /\ scanErr' = TRUE
    /\ UNCHANGED <<config, analyzer, newErr, content, apc, fileOpen, pos, outClosed,
                   errClosed, dpc, printed, uniqueIps, urlHits, result, retErr,
                   runs, prev>>

\* scanner.Scan() returns false: at the end of the file, after a failed read,
\* or on a read (or a too long line) that fails with the buffer empty.
ScanEnd ==
    /\ ppc = "scan"
    /\ \E fails \in BOOLEAN :
          /\ scanErr \/ pos = Len(content) \/ fails
          /\ scanErr' = (scanErr \/ fails)
    /\ ppc' = "closing"
    /\ UNCHANGED <<config, analyzer, newErr, content, apc, fileOpen, pos, scanned,
                   lineItem, outClosed, errClosed, dpc, printed, uniqueIps,
                   urlHits, result, retErr, runs, prev>>

\* outCh <- lineItem meets the receive of `for line := range lineCh`; the
\* consumer counts the line in both tables, the producer goes on to
\* `if err := scanner.Err(); err != nil`.
Handoff ==
    /\ ppc = "send"
    /\ apc = "loop"
    /\ uniqueIps' = Incr(uniqueIps, lineItem.RemoteHost)
    /\ urlHits' = Incr(urlHits, lineItem.URL)
    /\ lineItem' = Nil
    /\ ppc' = IF scanErr THEN "sendErr" ELSE "scan"
    /\ UNCHANGED <<config, analyzer, newErr, content, apc, fileOpen, pos, scanErr,
                   scanned, outClosed, errClosed, dpc, printed, result, retErr,
                   runs, prev>>

\* errCh <- err meets `err := <-errCh` of the draining goroutine, which prints
\* the error and ends.
ErrHandoff ==
    /\ ppc = "sendErr"
    /\ dpc = "recv"
    /\ dpc' = "done"
    /\ printed' = TRUE
    /\ ppc' = "scan"
    /\ UNCHANGED <<config, analyzer, newErr, content, apc, fileOpen, pos, scanErr,
                   scanned, lineItem, outClosed, errClosed, uniqueIps, urlHits,
                   result, retErr, runs, prev>>

ProducerExitLeavesOutOpen ==
    /\ ppc = "closing"
    /\ errClosed' = TRUE
    /\ ppc' = "done"
    /\ UNCHANGED <<config, analyzer, newErr, content, apc, fileOpen, pos, scanErr,
                   scanned, lineItem, outClosed, dpc, printed, uniqueIps,
                   urlHits, result, retErr, runs, prev>>

\* The deferred close(errCh) and close(outCh), as the goroutine returns.
ProducerExit ==
    /\ ppc = "closing"
    /\ errClosed' = TRUE
    /\ outClosed' = TRUE
    /\ ppc' = "done"
    /\ UNCHANGED <<config, analyzer, newErr, content, apc, fileOpen, pos, scanErr,
                   scanned, lineItem, dpc, printed, uniqueIps, urlHits, result,
                   retErr, runs, prev>>

\* `err := <-errCh` on the closed channel yields nil: nothing is printed.
DrainClosed ==
    /\ dpc = "recv"
    /\ errClosed
    /\ dpc' = "done"
    /\ UNCHANGED <<config, analyzer, newErr, content, apc, fileOpen, ppc, pos, scanErr,
                   scanned, lineItem, outClosed, errClosed, printed, uniqueIps,
                   urlHits, result, retErr, runs, prev>>

-----------------------------------------------------------------------------
(* The end of Analyze.                                                      *)

AnalyzePanicLeavesFileOpen ==
    /\ apc = "loop"
    /\ outClosed
    /\ \E ips \in topMost(uniqueIps, analyzer.mostActiveIPsCount),
          urls \in topMost(urlHits, analyzer.mostVisitedURLsCount) :
          ips.panic \/ urls.panic
    /\ apc' = "panicked"
    /\ UNCHANGED <<config, analyzer, newErr, content, fileOpen, ppc, pos, scanErr,
                   scanned, lineItem, outClosed, errClosed, dpc, printed,
                   uniqueIps, urlHits, result, retErr, runs, prev>>

\* The loop over lineCh ends when outCh is closed. One of the two topMost
\* calls indexes past the end of its slice: the panic runs the deferred
\* file.Close() and leaves Analyze without a result.
AnalyzePanic ==
    /\ apc = "loop"
    /\ outClosed
    /\ \E ips \in topMost(uniqueIps, analyzer.mostActiveIPsCount),
          urls \in topMost(urlHits, analyzer.mostVisitedURLsCount) :
          ips.panic \/ urls.panic
    /\ apc' = "panicked"
    /\ fileOpen' = FALSE
    /\ UNCHANGED <<config, analyzer, newErr, content, ppc, pos, scanErr, scanned,
                   lineItem, outClosed, errClosed, dpc, printed, uniqueIps,
                   urlHits, result, retErr, runs, prev>>

\* Both topMost calls return: Analyze returns the result and a nil error, and
\* the deferred file.Close() runs.
AnalyzeReturn ==
    /\ apc = "loop"
    /\ outClosed
    /\ \E ips \in topMost(uniqueIps, analyzer.mostActiveIPsCount),
          urls \in topMost(urlHits, analyzer.mostVisitedURLsCount) :
          /\ ~ips.panic
          /\ ~urls.panic
          /\ result' = LogAnalytics(uniqueIps, ips.list, urls.list)
    /\ retErr' = ""
    /\ apc' = "returned"
    /\ fileOpen' = FALSE
    /\ UNCHANGED <<config, analyzer, newErr, content, ppc, pos, scanErr, scanned,
                   lineItem, outClosed, errClosed, dpc, printed, uniqueIps,
                   urlHits, runs, prev>>

-----------------------------------------------------------------------------

Next ==
    \/ Construct
    \/ AnalyzeOpenFail
    \/ AnalyzeOpen
    \/ ScanLine
    \/ ScanCutLine
    \/ ScanEnd
    \/ Handoff
    \/ ErrHandoff
    \/ ProducerExit
    \/ DrainClosed
    \/ AnalyzePanic
    \/ AnalyzeReturn

Spec == Init /\ [][Next]_vars

\* The same program with the caller calling Analyze again.
NextRerun == Next \/ AnalyzeAgainOpenFail \/ AnalyzeAgainOpen

RerunSpec == Init /\ [][NextRerun]_vars

\* The Go scheduler does not stop while some goroutine can take a step. (It
\* also runs each goroutine that stays runnable; the weaker condition is all
\* that is assumed here.)
\* Whether a call ends depends on a line only through its matching the
\* pattern, so the files here are made of two lines that match and one that
\* does not.
FairSpec == InitWith(FilesOf({WellFormed1, NoProtocol2, EmptyLine}))
              /\ [][Next]_vars /\ WF_vars(Next)

-----------------------------------------------------------------------------
(* What the claims speak of, stated over the lines the scanner handed out.  *)

IsMatch(line) == Len(line.groups) > 0

\* Capture group 1 of a matched line.
AddressOf(line) == line.groups[1]

\* The URL of a matched line: capture group 4, or group 6 when 4 is empty.
URLOf(line) == IF line.groups[4] # "" THEN line.groups[4] ELSE line.groups[6]

MatchedIn(lines) == {i \in 1..Len(lines) : IsMatch(lines[i])}

Addresses(lines) == {AddressOf(lines[i]) : i \in MatchedIn(lines)}
URLs(lines) == {URLOf(lines[i]) : i \in MatchedIn(lines)}

AddressCount(lines, k) ==
    Cardinality({i \in MatchedIn(lines) : AddressOf(lines[i]) = k})
URLCount(lines, k) ==
    Cardinality({i \in MatchedIn(lines) : URLOf(lines[i]) = k})

AddressTable(lines) == [k \in Addresses(lines) |-> AddressCount(lines, k)]
URLTable(lines) == [k \in URLs(lines) |-> URLCount(lines, k)]

Range(list) == {list[i] : i \in 1..Len(list)}

Exited == apc \in {"returned", "panicked"}

-----------------------------------------------------------------------------
\* C1: when Analyze returns a result, UniqueIPCount is the number of distinct
\* client addresses (capture group 1) among the lines that matched the
\* pattern: the lines the scanner handed out, which are the lines of the file
\* when no read failed. Lines that did not match add nothing and a repeated
\* address counts once.
C1_UniqueIPCount ==
    apc = "returned" =>
        /\ result.UniqueIPCount = Cardinality(Addresses(scanned))
        /\ ~scanErr => result.UniqueIPCount = Cardinality(Addresses(content))

\* A result for a file with a line that did not match and an address that
\* occurs twice.
C1_Witness ==
    /\ apc = "returned"
    /\ ~scanErr
    /\ \E i \in 1..Len(scanned) : ~IsMatch(scanned[i])
    /\ \E i, j \in MatchedIn(scanned) :
          i # j /\ AddressOf(scanned[i]) = AddressOf(scanned[j])
    /\ result.UniqueIPCount = 1

\* A list ranks a table: its keys are keys of the table, none twice, in order
\* of non-increasing count, and no key left out has a strictly greater count
\* than a key in the list.
Ranks(list, keys, Count(_)) ==
    /\ Range(list) \subseteq keys
    /\ \A i, j \in 1..Len(list) : i # j => list[i] # list[j]
    /\ \A i, j \in 1..Len(list) : i < j => Count(list[i]) >= Count(list[j])
    /\ \A k \in keys \ Range(list) : \A i \in 1..Len(list) :
          Count(k) <= Count(list[i])

\* C2: in every result Analyze returns, MostActiveIPs ranks the client
\* addresses and MostVisitedURLs the resolved URLs by the number of matched
\* lines carrying the key: non-increasing counts, the highest-count keys, no
\* key twice.
C2_RankedLists ==
    apc = "returned" =>
        /\ Ranks(result.MostActiveIPs, Addresses(scanned),
                 LAMBDA k : AddressCount(scanned, k))
        /\ Ranks(result.MostVisitedURLs, URLs(scanned),
                 LAMBDA k : URLCount(scanned, k))

\* A result whose address list has two keys of different counts, and whose
\* URL list leaves a key out.
C2_Witness ==
    /\ apc = "returned"
    /\ Len(result.MostActiveIPs) = 2
    /\ AddressCount(scanned, result.MostActiveIPs[1])
         > AddressCount(scanned, result.MostActiveIPs[2])
    /\ Len(result.MostVisitedURLs) = 1
    /\ Cardinality(URLs(scanned)) = 2

\* C3: with D distinct keys in a table and N asked for, Analyze returns lists
\* of exactly N keys when N <= D for both tables (the empty list for N = 0,
\* also when D = 0), and ends in the index-out-of-range panic, with no
\* result, when N > D for either table; it never returns a shorter list.
C3_RangePolicy ==
    Exited =>
        LET nIPs  == analyzer.mostActiveIPsCount
            nURLs == analyzer.mostVisitedURLsCount
            dIPs  == Cardinality(Addresses(scanned))
            dURLs == Cardinality(URLs(scanned))
        IN  /\ apc = "panicked" <=> (nIPs > dIPs \/ nURLs > dURLs)
            /\ apc = "panicked" => result = Nil
            /\ apc = "returned" =>
                  /\ retErr = ""
                  /\ Len(result.MostActiveIPs) = nIPs
                  /\ Len(result.MostVisitedURLs) = nURLs

\* Analyze ended in the panic with a table that is not empty and a count
\* beyond its keys, the other count being in range.
C3_Witness ==
    /\ apc = "panicked"
    /\ Cardinality(Addresses(scanned)) = 1
    /\ analyzer.mostActiveIPsCount = 2
    /\ analyzer.mostVisitedURLsCount <= Cardinality(URLs(scanned))

\* C4: a call of Analyze that reads the same lines as the call before it, on
\* the same analyzer, returns the same result, the order and the choice of
\* the keys with equal counts included.
C4_Idempotent ==
    (apc = "returned" /\ prev # Nil /\ prev.lines = scanned) =>
        result = prev.result

\* C5: when the source cannot be opened Analyze returns the "error opening
\* file" error and no result; no line is read, no table is built, no
\* goroutine is started and no handle is open.
C5_OpenFailure ==
    apc = "openfail" =>
        /\ result = Nil
        /\ retErr = ErrOpeningFile
        /\ scanned = <<>>
        /\ pos = 0
        /\ DOMAIN uniqueIps = {}
        /\ DOMAIN urlHits = {}
        /\ ppc = "none"
        /\ dpc = "none"
        /\ ~fileOpen

C5_Witness ==
    /\ apc = "openfail"
    /\ retErr = ErrOpeningFile
    /\ Len(content) > 0

\* The producer has just read a line that does not match the pattern.
ReadsNonMatching ==
    /\ Len(scanned') = Len(scanned) + 1
    /\ ~IsMatch(scanned'[Len(scanned')])

\* C6: a line that does not match the pattern is skipped. The step that reads
\* it changes neither table, sends nothing and leaves the producer in its
\* loop; so when no read failed the pass has gone over every line of the
\* file, and at the end of the pass both tables are those of the matched
\* lines alone, wherever the other lines stand.
C6_SkipNonMatching ==
    /\ [][ReadsNonMatching =>
            /\ UNCHANGED <<uniqueIps, urlHits, lineItem, apc, result, retErr>>
            /\ ppc' = "scan"]_vars
    /\ [](outClosed =>
            /\ ~scanErr => scanned = content
            /\ uniqueIps = AddressTable(scanned)
            /\ urlHits = URLTable(scanned))

\* A pass that ended without a read error over a file in which a line that
\* does not match stands before one that does, and Analyze returned.
C6_Witness ==
    /\ apc = "returned"
    /\ ~scanErr
    /\ \E i \in 1..Len(content) - 1 :
          ~IsMatch(content[i]) /\ IsMatch(content[i + 1])
    /\ result.UniqueIPCount >= 1

\* C7: NewLogAnalyzer returns "config is required" and no analyzer for an
\* absent configuration, the distinct "line regex is required" and no
\* analyzer for a configuration without pattern, and an analyzer carrying the
\* pattern and both counts, with no error, for every configuration that has a
\* pattern, whatever the counts.
C7_Construction ==
    apc # "new" =>
        /\ ErrConfigIsRequired # ErrLineRegexIsRequired
        /\ IF config = Nil
           THEN analyzer = Nil /\ newErr = ErrConfigIsRequired
           ELSE IF config.LineRegex = Nil
           THEN analyzer = Nil /\ newErr = ErrLineRegexIsRequired
           ELSE /\ newErr = ""
                /\ analyzer # Nil
                /\ analyzer.lineRegex = config.LineRegex
                /\ analyzer.mostActiveIPsCount = config.MostActiveIPsCount
                /\ analyzer.mostVisitedURLsCount = config.MostVisitedURLsCount

\* The constructor was given a configuration without pattern, with counts.
C7_Witness ==
    /\ apc = "failed"
    /\ config # Nil
    /\ config.MostActiveIPsCount = MaxTop
    /\ newErr = ErrLineRegexIsRequired

\* C8: under fair scheduling every call of Analyze that opened its source
\* ends: the producer reaches the end of the stream and closes both channels,
\* the loop of Analyze ends and Analyze exits, also when the scanner reports
\* a read error and the producer sends it on errCh.
C8_Terminates ==
    (apc = "loop") ~>
        (Exited /\ ppc = "done" /\ outClosed /\ errClosed)

\* Analyze returned after a read error was sent on errCh and received by the
\* draining goroutine.
C8_Witness ==
    /\ apc = "returned"
    /\ scanErr
    /\ printed
    /\ ppc = "done"

\* C9: the file handle is open while the pass runs and closed on every exit
\* of Analyze: when it returns a result, when it ends in the panic of the
\* ranking, and (never opened) when the open failed.
C9_HandleReleased ==
    /\ apc = "loop" => fileOpen
    /\ apc \in {"returned", "panicked", "openfail"} => ~fileOpen

C9_Witness ==
    /\ apc = "panicked"
    /\ ~fileOpen
    /\ Len(scanned) > 0

\* The fields of a timestamp that names a time of the calendar.
IsCalendarTime(v) ==
    /\ Len(v) = 7
    /\ v[2] >= 1 /\ v[2] <= 12
    /\ v[1] >= 1 /\ v[1] <= 31
    /\ v[2] \in {4, 6, 9, 11} => v[1] <= 30
    /\ v[2] = 2 => v[1] <= 29
    /\ (v[2] = 2 /\ v[1] = 29) =>
          (v[3] % 4 = 0 /\ (v[3] % 100 # 0 \/ v[3] % 400 = 0))
    /\ v[4] >= 0 /\ v[4] <= 23
    /\ v[5] >= 0 /\ v[5] <= 59
    /\ v[6] >= 0 /\ v[6] <= 59

\* The text of a decimal integer: an optional sign and at least one digit.
IsDecimalText(s) ==
    \/ Len(s) >= 1 /\ \A i \in 1..Len(s) : s[i] \in Digits
    \/ /\ Len(s) >= 2
       /\ s[1] \in {"+", "-"}
       /\ \A i \in 2..Len(s) : s[i] \in Digits

InFlight(k, field) ==
    IF ppc = "send" /\ lineItem[field] = k THEN 1 ELSE 0

CountIn(m, k) == IF k \in DOMAIN m THEN m[k] ELSE 0

\* C10: a matched line with a malformed sub-field is decoded and emitted like
\* any other: a status or byte count that is no number becomes 0, a timestamp
\* that does not parse becomes the zero time, the address and URL are those
\* of the line, no error is reported because of it, and every matched line,
\* well-formed or not, is counted once under its address and once under its
\* URL (or is the record being sent).
C10_MalformedSubFields ==
    /\ ppc = "send" =>
          LET line == scanned[Len(scanned)]
          IN  /\ IsMatch(line)
              /\ ~IsDecimalText(line.groups[7]) => lineItem.Status = 0
              /\ ~IsDecimalText(line.groups[8]) => lineItem.Bytes = 0
              /\ ~IsCalendarTime(line.groups[2]) => lineItem.Time = ZeroTime
              /\ lineItem.RemoteHost = AddressOf(line)
              /\ lineItem.URL = URLOf(line)
    /\ printed => scanErr
    /\ apc = "loop" =>
          /\ \A k \in Addresses(scanned) :
                CountIn(uniqueIps, k) + InFlight(k, "RemoteHost")
                  = AddressCount(scanned, k)
          /\ \A k \in URLs(scanned) :
                CountIn(urlHits, k) + InFlight(k, "URL") = URLCount(scanned, k)

\* The record of a line with a status, a byte count and a timestamp that do
\* not parse is being sent, after a well-formed line of the same address and
\* URL was counted.
C10_Witness ==
    /\ ppc = "send"
    /\ scanned = <<WellFormed1, Malformed1>>
    /\ lineItem.Status = 0
    /\ lineItem.Bytes = 0
    /\ lineItem.Time = ZeroTime
    /\ uniqueIps["10.0.0.1"] = 1

====
